---- MODULE Spec2Model ----
(***************************************************************************)
(* Model of imguralbum.py: the ImgurAlbumDownloader class.                 *)
(*                                                                         *)
(*   SpecBuild  the constructor (URL check, listing fetch, extraction,     *)
(*              de-duplication, tally) run in one or more interpreter      *)
(*              processes against one listing page body;                   *)
(*   Spec       a constructed downloader: registration of callbacks and    *)
(*              save_images, stepped at every call that leaves the         *)
(*              method (a callback, the network, the file system).         *)
(*                                                                         *)
(* Strings that the code takes apart (extensions, the file name suffix)    *)
(* are sequences of one-character strings; opaque strings are atoms.       *)
(***************************************************************************)
EXTENDS Integers, Sequences, FiniteSets, TLC

(* ------------------------------ bounds -------------------------------- *)

\* fragments on the listing page
MaxFragments == 2
\* images of the album handed to save_images
MaxItems == 2
\* callbacks registered on one downloader, over the three slots
MaxCallbacks == 2
\* calls of save_images on one downloader
MaxRuns == 2

VARIABLES
    page,               \* body the listing URL serves (sequence of fragments)
    hashSeed,           \* string-hash seed of the interpreter process
    extn,               \* the extn argument of the last construction
    prev,               \* result of the construction before the last one
    pc,                 \* position of the caller / of save_images
    raised,             \* the exception that left the last call, if any
    protocol,           \* self.protocol
    album_key,          \* self.album_key
    imageIDs,           \* self.imageIDs
    cnt,                \* self.cnt
    image_callbacks,    \* self.image_callbacks
    success_callbacks,  \* self.success_callbacks
    complete_callbacks, \* self.complete_callbacks
    useKey,             \* the useKey argument of save_images
    counter,            \* loop variable of save_images (1-based)
    k,                  \* position in the callback list being run
    disk,               \* files of the album folder: path -> bytes
    resp,               \* what the last GET of save_images came back with
    run,                \* number of save_images calls so far
    diskAtStart,        \* disk when the current save_images call began
    log                 \* events of the current save_images call: <<kind, index,
                        \* callback>> with kind "before", "success", "complete"
                        \* (a callback is called), "get", "write" (network,
                        \* file) and "skip", "failed" (the verbose messages)

vars == <<page, hashSeed, extn, prev, pc, raised, protocol, album_key,
          imageIDs, cnt, image_callbacks, success_callbacks,
          complete_callbacks, useKey, counter, k, disk, resp, run,
          diskAtStart, log>>

buildVars == <<page, hashSeed, extn, prev>>
instVars == <<protocol, album_key, imageIDs, cnt>>
cbVars == <<image_callbacks, success_callbacks, complete_callbacks>>
loopVars == <<useKey, counter, k, disk, resp, run, diskAtStart, log>>

(* ------------------------------ helpers ------------------------------- *)

Range(s) == {s[i] : i \in 1..Len(s)}

Min(S) == CHOOSE x \in S : \A y \in S : x <= y

SeqsUpTo(S, n) == UNION {[1..m -> S] : m \in 0..n}

Perms(n) == {p \in [1..n -> 1..n] : \A i, j \in 1..n : i # j => p[i] # p[j]}

NoExc == [type |-> "none", from |-> "none", code |-> 0]

Exc(t, f, c) == [type |-> t, from |-> f, code |-> c]

(* --------------------------- exception classes ------------------------ *)

\* requests.exceptions / PIL / urllib3 class hierarchy, as far as the
\* except clauses of the module can tell the classes apart
Parent(e) ==
    CASE e = "ConnectionError" -> "RequestException"
      [] e = "Timeout" -> "RequestException"
      [] e = "HTTPError" -> "RequestException"
      [] e = "TooManyRedirects" -> "RequestException"
      [] e = "RetryError" -> "RequestException"
      [] e = "RequestException" -> "OSError"
      [] e = "UnidentifiedImageError" -> "OSError"
      [] e = "MaxRetryError" -> "Exception"
      [] e = "OSError" -> "Exception"
      [] e = "ValueError" -> "Exception"
      [] e = "AttributeError" -> "Exception"
      [] e = "ImgurAlbumException" -> "Exception"
      [] OTHER -> "BaseException"

RECURSIVE IsInstance(_, _)
IsInstance(e, c) ==
    IF e = c THEN TRUE
    ELSE IF e = "BaseException" THEN FALSE
    ELSE IsInstance(Parent(e), c)

\* what session.get raises when no response comes back
TransportErrors == {"ConnectionError", "Timeout", "TooManyRedirects", "RetryError"}

\* response bodies: no body, a page of markup, the bytes of an image
NoBody == [kind |-> "none", w |-> 0, h |-> 0]
Html == [kind |-> "html", w |-> 0, h |-> 0]

\* the outcome of a GET: the exception raised, or the status and the body
NoResp == [idx |-> 0, exc |-> "none", status |-> 0, body |-> NoBody]

(* ------------------------- the listing page ---------------------------- *)

\* extensions as they stand between the quotes of an "ext" field
Jpg == <<".", "j", "p", "g">>
Png == <<".", "p", "n", "g">>
DotDotJpg == <<".", ".", "j", "p", "g">>

Hashes == {"abc1", "xyz2"}
ExtFields == {Jpg, Png, DotDotJpg}

\* one {"hash":"<id>", ... ,"ext":"<ext>"} fragment of the page's script data
Fragments == [hash : Hashes, ext : ExtFields]

\* page bodies: the fragments of the one line that holds the script data
Pages == SeqsUpTo(Fragments, MaxFragments)

\* values of the extn argument: None, ["jpg"], ["jpg", "png"], [".jpg"]
ExtnArgs ==
    {<<>>, <<Tail(Jpg)>>, <<Tail(Jpg), Tail(Png)>>, <<Jpg>>}

\* album_url arguments
Urls == [scheme : {"http", "https", "ftp"}, host : {"imgur.com"}, key : {"uOOju"}]
            \cup [scheme : {"http"}, host : {"example.com"}, key : {"uOOju"}]

\* re.match of line 77: the scheme and the host are what a URL can get wrong
UrlMatch(u) == u.scheme \in {"http", "https"} /\ u.host = "imgur.com"

\* status codes a final listing response may carry
ListingStatus == {200, 204, 404, 503}

\* what session.get of the listing comes back with
ListingOutcomes ==
    [exc : TransportErrors, status : {0}] \cup [exc : {"none"}, status : ListingStatus]

\* Response.__bool__ is Response.ok: no 4xx or 5xx status
ResponseOk(status) == status < 400

(* ----------------------------- extraction ------------------------------ *)

\* one alternative of '|'.join(extn) against the text s: the alternative is
\* used as a regular expression, so its "." stands for any one character
AltMatch(e, s) ==
    /\ Len(e) = Len(s)
    /\ \A i \in 1..Len(e) : e[i] = "." \/ e[i] = s[i]

\* the part of the pattern of line 113 between "ext":" and the closing quote,
\* against the text of an ext field:  \.(.*?)  without extn, and with extn
\* \.((\.(e1|e2|..)))  since ext_regex (line 112) brings a \. of its own
ExtMatch(field, filter) ==
    IF filter = <<>>
    THEN Len(field) >= 1 /\ field[1] = "."
    ELSE /\ Len(field) >= 2
         /\ field[1] = "."
         /\ field[2] = "."
         /\ \E i \in 1..Len(filter) : AltMatch(filter[i], SubSeq(field, 3, Len(field)))

\* re.findall of line 113 from fragment i on: the hash of fragment i, then
\* the lazy .*? runs on to the first ext field that the pattern accepts, and
\* the scan resumes behind it.  A match is the tuple of the pattern's groups.
RECURSIVE FindAll(_, _, _)
FindAll(html, filter, i) ==
    IF i > Len(html) THEN <<>>
    ELSE LET js == {j \in i..Len(html) : ExtMatch(html[j].ext, filter)}
         IN  IF js = {} THEN <<>>
             ELSE LET j == Min(js)
                  IN  <<<<html[i].hash, html[j].ext, Tail(html[j].ext)>>>>
                          \o FindAll(html, filter, j + 1)

\* a fixed enumeration order of the (hash, ext) pairs, to number set elements
RankOf(pair) ==
    LET h == IF pair[1] = "abc1" THEN 0 ELSE 1
        e == IF pair[2] = Jpg THEN 0 ELSE IF pair[2] = Png THEN 1 ELSE 2
    IN  3 * h + e

RECURSIVE Canonical(_)
Canonical(S) ==
    IF S = {} THEN <<>>
    ELSE LET x == CHOOSE y \in S : \A z \in S : RankOf(y) <= RankOf(z)
         IN  <<x>> \o Canonical(S \ {x})

\* the sequence s reordered by the keys key[1..Len(s)] (all different)
RECURSIVE OrderBy(_, _, _)
OrderBy(s, key, left) ==
    IF left = {} THEN <<>>
    ELSE LET i == CHOOSE a \in left : \A b \in left : key[a] <= key[b]
         IN  <<s[i]>> \o OrderBy(s, key, left \ {i})

\* list(set(..)) of line 116: the iteration order of a set of tuples of
\* strings follows their hashes, which the interpreter seeds per process;
\* any order can come out, the same one for the same seed and set
SetToList(seed, S) ==
    LET c == Canonical(S)
    IN  OrderBy(c, seed, 1..Len(c))

\* lines 113-116
Extract(html, filter, seed) ==
    SetToList(seed, {SubSeq(m, 1, 2) : m \in Range(FindAll(html, filter, 1))})

\* lines 120-123: Counter of the extensions, in first-seen order
ExtKeys(ids) ==
    LET RECURSIVE Keys(_, _)
        Keys(i, seen) ==
            IF i > Len(ids) THEN <<>>
            ELSE IF ids[i][2] \in seen THEN Keys(i + 1, seen)
            ELSE <<ids[i][2]>> \o Keys(i + 1, seen \cup {ids[i][2]})
    IN  Keys(1, {})

Tally(ids) ==
    [e \in Range(ExtKeys(ids)) |-> Cardinality({i \in 1..Len(ids) : ids[i][2] = e})]

\* Counter.most_common(): by count, descending; equal counts in first-seen order
RECURSIVE MostCommon(_, _)
MostCommon(keys, c) ==
    IF keys = <<>> THEN <<>>
    ELSE LET i == Min({a \in 1..Len(keys) :
                          \A b \in 1..Len(keys) : c[keys[a]] >= c[keys[b]]})
             rest == [n \in 1..(Len(keys) - 1) |->
                         IF n < i THEN keys[n] ELSE keys[n + 1]]
         IN  <<<<keys[i], c[keys[i]]>>>> \o MostCommon(rest, c)

num_images == Len(imageIDs)

NumItems == num_images

list_extensions == MostCommon(ExtKeys(imageIDs), cnt)

NoPrev == [built |-> FALSE, extn |-> <<>>, imageIDs |-> <<>>, exts |-> <<>>]

(* ----------------------------- construction ---------------------------- *)

\* the result of the latest successful construction, kept for comparison
Remembered ==
    IF pc = "idle"
    THEN [built |-> TRUE, extn |-> extn, imageIDs |-> imageIDs,
          exts |-> list_extensions]
    ELSE prev

\* a new interpreter process: a new string-hash seed, no downloader yet
NewProcess ==
    /\ pc \in {"new", "idle", "failed"}
    /\ \E seed \in Perms(MaxFragments) : hashSeed' = seed
    /\ pc' = "new"
    /\ raised' = NoExc
    /\ resp' = NoResp
    /\ prev' = Remembered
    /\ UNCHANGED <<page, extn, instVars, cbVars>>
    /\ UNCHANGED <<useKey, counter, k, disk, run, diskAtStart, log>>

\* ImgurAlbumDownloader.__init__ (lines 51-123)
Construct ==
    /\ pc \in {"new", "idle", "failed"}
    /\ \E url \in Urls, filter \in ExtnArgs, got \in ListingOutcomes :
         /\ extn' = filter
         /\ resp' = IF UrlMatch(url)
                    THEN [idx |-> 0, exc |-> got.exc, status |-> got.status,
                          body |-> NoBody]
                    ELSE NoResp
         /\ prev' = Remembered
         /\ IF ~UrlMatch(url)
            THEN \* line 79
                 /\ pc' = "failed"
                 /\ raised' = Exc("ImgurAlbumException", "url", 0)
                 /\ UNCHANGED instVars
            ELSE IF got.exc # "none"
            THEN \* lines 103-105: e.code, and requests' exceptions have no code
                 /\ pc' = "failed"
                 /\ raised' = Exc("AttributeError", "listing", 0)
                 /\ protocol' = url.scheme
                 /\ album_key' = url.key
                 /\ UNCHANGED <<imageIDs, cnt>>
            ELSE IF ~ResponseOk(got.status) \/ got.status # 200
            THEN \* lines 107-108
                 /\ pc' = "failed"
                 /\ raised' = Exc("ImgurAlbumException", "listing", got.status)
                 /\ protocol' = url.scheme
                 /\ album_key' = url.key
                 /\ UNCHANGED <<imageIDs, cnt>>
            ELSE \* lines 111-123
                 /\ pc' = "idle"
                 /\ raised' = NoExc
                 /\ protocol' = url.scheme
                 /\ album_key' = url.key
                 /\ imageIDs' = Extract(page, filter, hashSeed)
                 /\ cnt' = Tally(imageIDs')
    /\ UNCHANGED <<page, hashSeed, cbVars>>
    /\ UNCHANGED <<useKey, counter, k, disk, run, diskAtStart, log>>

InitBuild ==
    /\ page \in Pages
    /\ hashSeed \in Perms(MaxFragments)
    /\ extn = <<>>
    /\ prev = NoPrev
    /\ pc = "new"
    /\ raised = NoExc
    /\ protocol = "none"
    /\ album_key = "none"
    /\ imageIDs = <<>>
    /\ cnt = <<>>
    /\ image_callbacks = <<>>
    /\ success_callbacks = <<>>
    /\ complete_callbacks = <<>>
    /\ useKey = FALSE
    /\ counter = 0
    /\ k = 0
    /\ disk = {}
    /\ resp = NoResp
    /\ run = 0
    /\ diskAtStart = {}
    /\ log = <<>>

NextBuild == NewProcess \/ Construct

SpecBuild == InitBuild /\ [][NextBuild]_vars

(* ------------------------- the download loop --------------------------- *)

\* the album of a constructed downloader: no two entries alike
SampleAlbum ==
    << <<"abc1", Jpg>>, <<"xyz2", Png>>, <<"abc1", Png>>, <<"xyz2", Jpg>> >>

Albums == {SubSeq(SampleAlbum, 1, n) : n \in 0..MaxItems}

\* image bodies by the size PIL reads from them
Images == [kind : {"image"}, w : {161, 640}, h : {81, 480}]

\* status codes of a final response to an image GET
ItemStatus == {200, 404}

\* what session.get of an image URL comes back with (line 213)
GetOutcomes ==
    [exc : TransportErrors, status : {0}, body : {NoBody}]
        \cup [exc : {"none"}, status : ItemStatus, body : {Html} \cup Images]

\* what a callback does when it is called: return, or raise
CallbackOutcomes == {"return", "ConnectionError", "ValueError"}

\* lines 216-218: Image.open and im.size
ImageOpen(body) ==
    IF body.kind = "image"
    THEN [exc |-> "none", w |-> body.w, h |-> body.h]
    ELSE [exc |-> "UnidentifiedImageError", w |-> 0, h |-> 0]

\* the size of the imgur "image not found" picture
PlaceholderWidth == 161
PlaceholderHeight == 81

\* the test of line 220 with the two sizes exchanged
IsPlaceholderSwapped(w, h) == w = PlaceholderHeight /\ h = PlaceholderWidth

\* line 220
IsPlaceholder(w, h) == w = PlaceholderWidth /\ h = PlaceholderHeight

\* the except clause of line 229 without the decoder's exception
ExceptClassesNoDecode ==
    {"ConnectionError", "Timeout", "HTTPError", "RequestException",
     "TooManyRedirects", "MaxRetryError"}

\* the classes of the except clause of line 229
ExceptClasses ==
    {"ConnectionError", "Timeout", "HTTPError", "RequestException",
     "TooManyRedirects", "UnidentifiedImageError", "MaxRetryError"}

Caught(e) == \E c \in ExceptClasses : IsInstance(e, c)

\* decimal digits of n, as characters
DigitChars == <<"0", "1", "2", "3", "4", "5", "6", "7", "8", "9">>

RECURSIVE Digits(_)
Digits(n) ==
    IF n < 10 THEN <<DigitChars[n + 1]>>
    ELSE Digits(n \div 10) \o <<DigitChars[(n % 10) + 1]>>

\* line 197: "_{:0>2}".format(counter)
Suffix(c) ==
    LET d == Digits(c)
    IN  <<"_">> \o (IF Len(d) < 2 THEN <<"0">> \o d ELSE d)

\* lines 199-202: the folder, then stem + suffix + extension
PathOf(folder, key, uk, c, image) ==
    <<folder, IF uk THEN key ELSE image[1], Suffix(c), image[2]>>

\* lines 185-188 with foldername = None
albumFolder == album_key

Path(c) == PathOf(albumFolder, album_key, useKey, c, imageIDs[c])

\* the test of line 209 left out: no file is ever found
isfileNever(d, p) == FALSE

\* os.path.isfile / os.path.exists on the album folder
isfile(d, p) == \E f \in d : f[1] = p

\* open(path, 'wb') and write
WriteFile(d, p, data) == {f \in d : f[1] # p} \cup {<<p, data>>}

\* os.remove
RemoveFile(d, p) == {f \in d : f[1] # p}

\* line 231
ExceptHandler(d, p) == IF isfile(d, p) THEN RemoveFile(d, p) ELSE d

Registered ==
    Len(image_callbacks) + Len(success_callbacks) + Len(complete_callbacks)

\* lines 148-155
on_image_download ==
    /\ pc = "idle"
    /\ run = 0
    /\ Registered < MaxCallbacks
    /\ image_callbacks' = Append(image_callbacks, Registered + 1)
    /\ UNCHANGED <<buildVars, pc, raised, instVars, success_callbacks,
                   complete_callbacks, loopVars>>

\* lines 157-164
on_download_success ==
    /\ pc = "idle"
    /\ run = 0
    /\ Registered < MaxCallbacks
    /\ success_callbacks' = Append(success_callbacks, Registered + 1)
    /\ UNCHANGED <<buildVars, pc, raised, instVars, image_callbacks,
                   complete_callbacks, loopVars>>

\* lines 166-171
on_complete ==
    /\ pc = "idle"
    /\ run = 0
    /\ Registered < MaxCallbacks
    /\ complete_callbacks' = Append(complete_callbacks, Registered + 1)
    /\ UNCHANGED <<buildVars, pc, raised, instVars, image_callbacks,
                   success_callbacks, loopVars>>

\* lines 233-235 reached: the complete callbacks, or the return
AfterLoop ==
    IF complete_callbacks # <<>>
    THEN pc' = "complete_callbacks" /\ k' = 1
    ELSE pc' = "done" /\ k' = 0

\* line 194: the loop takes item c, or ends; lines 204-206 come first
Goto(c) ==
    /\ counter' = c
    /\ IF c > Len(imageIDs) THEN AfterLoop
       ELSE IF image_callbacks # <<>>
       THEN pc' = "image_callbacks" /\ k' = 1
       ELSE pc' = "download" /\ k' = 0

\* an exception leaves save_images
Raise(e, where) ==
    /\ pc' = "raised"
    /\ raised' = Exc(e, where, 0)
    /\ k' = 0
    /\ counter' = counter

\* save_images is called (lines 174-194)
save_images ==
    /\ pc \in {"idle", "done", "raised"}
    /\ run < MaxRuns
    /\ run' = run + 1
    /\ diskAtStart' = disk
    /\ log' = <<>>
    /\ resp' = NoResp
    /\ raised' = NoExc
    /\ Goto(1)
    /\ UNCHANGED <<buildVars, instVars, cbVars, useKey, disk>>

\* lines 205-206: one callback of image_callbacks is called
ImageCallback ==
    /\ pc = "image_callbacks"
    /\ log' = Append(log, <<"before", counter, image_callbacks[k]>>)
    /\ resp' = NoResp
    /\ \E out \in CallbackOutcomes :
         IF out # "return"
         THEN Raise(out, "image_callbacks")
         ELSE /\ counter' = counter
              /\ raised' = raised
              /\ IF k < Len(image_callbacks)
                 THEN pc' = pc /\ k' = k + 1
                 ELSE pc' = "download" /\ k' = 0
    /\ UNCHANGED <<buildVars, instVars, cbVars, useKey, disk, run, diskAtStart>>

\* lines 209-210 leaving the loop at the first file that is there already
SkipExistingBreak ==
    /\ pc = "download"
    /\ isfile(disk, Path(counter))
    /\ log' = Append(log, <<"skip", counter, 0>>)
    /\ resp' = NoResp
    /\ Goto(NumItems + 1)
    /\ UNCHANGED <<buildVars, raised, instVars, cbVars, useKey, disk, run,
                   diskAtStart>>

\* lines 209-210: the file is there already
SkipExisting ==
    /\ pc = "download"
    /\ isfile(disk, Path(counter))
    /\ log' = Append(log, <<"skip", counter, 0>>)
    /\ resp' = NoResp
    /\ Goto(counter + 1)
    /\ UNCHANGED <<buildVars, raised, instVars, cbVars, useKey, disk, run,
                   diskAtStart>>

\* lines 212-231 up to the success callbacks: the GET, the decoding, the
\* placeholder test, the write, and the except clause
Download ==
    /\ pc = "download"
    /\ ~isfile(disk, Path(counter))
    /\ \E got \in GetOutcomes :
         LET im == ImageOpen(got.body)
             e == IF got.exc # "none" THEN got.exc ELSE im.exc
         IN  /\ resp' = [idx |-> counter, exc |-> got.exc, status |-> got.status,
                         body |-> got.body]
             /\ IF e # "none"
                THEN IF Caught(e)
                     THEN /\ disk' = ExceptHandler(disk, Path(counter))
                          /\ log' = log \o << <<"get", counter, 0>>,
                                              <<"failed", counter, 0>> >>
                          /\ raised' = raised
                          /\ Goto(counter + 1)
                     ELSE /\ disk' = disk
                          /\ log' = Append(log, <<"get", counter, 0>>)
                          /\ Raise(e, "download")
                ELSE IF IsPlaceholder(im.w, im.h)
                THEN /\ disk' = disk
                     /\ log' = Append(log, <<"get", counter, 0>>)
                     /\ raised' = raised
                     /\ Goto(counter + 1)
                ELSE /\ disk' = WriteFile(disk, Path(counter), got.body)
                     /\ log' = log \o << <<"get", counter, 0>>, <<"write", counter, 0>> >>
                     /\ raised' = raised
                     /\ IF success_callbacks # <<>>
                        THEN pc' = "success_callbacks" /\ k' = 1 /\ counter' = counter
                        ELSE Goto(counter + 1)
    /\ UNCHANGED <<buildVars, instVars, cbVars, useKey, run, diskAtStart>>

\* lines 226-227: one callback of success_callbacks is called, inside the try
\* of line 212, so that the except clause of line 229 is its handler too
SuccessCallback ==
    /\ pc = "success_callbacks"
    /\ resp' = NoResp
    /\ \E out \in CallbackOutcomes :
         IF out = "return"
         THEN /\ log' = Append(log, <<"success", counter, success_callbacks[k]>>)
              /\ disk' = disk
              /\ raised' = raised
              /\ IF k < Len(success_callbacks)
                 THEN pc' = pc /\ k' = k + 1 /\ counter' = counter
                 ELSE Goto(counter + 1)
         ELSE IF Caught(out)
         THEN /\ disk' = ExceptHandler(disk, Path(counter))
              /\ log' = log \o << <<"success", counter, success_callbacks[k]>>,
                                  <<"failed", counter, 0>> >>
              /\ raised' = raised
              /\ Goto(counter + 1)
         ELSE /\ log' = Append(log, <<"success", counter, success_callbacks[k]>>)
              /\ disk' = disk
              /\ Raise(out, "success_callbacks")
    /\ UNCHANGED <<buildVars, instVars, cbVars, useKey, run, diskAtStart>>

\* lines 234-235: one callback of complete_callbacks is called
CompleteCallback ==
    /\ pc = "complete_callbacks"
    /\ log' = Append(log, <<"complete", 0, complete_callbacks[k]>>)
    /\ resp' = NoResp
    /\ \E out \in CallbackOutcomes :
         IF out # "return"
         THEN Raise(out, "complete_callbacks")
         ELSE /\ counter' = counter
              /\ raised' = raised
              /\ IF k < Len(complete_callbacks)
                 THEN pc' = pc /\ k' = k + 1
                 ELSE pc' = "done" /\ k' = 0
    /\ UNCHANGED <<buildVars, instVars, cbVars, useKey, disk, run, diskAtStart>>

\* a downloader whose construction succeeded, in an empty album folder
Init ==
    /\ page = <<>>
    /\ hashSeed = [i \in 1..MaxFragments |-> i]
    /\ extn = <<>>
    /\ prev = NoPrev
    /\ pc = "idle"
    /\ raised = NoExc
    /\ protocol = "https"
    /\ album_key = "uOOju"
    /\ imageIDs \in Albums
    /\ cnt = Tally(imageIDs)
    /\ image_callbacks = <<>>
    /\ success_callbacks = <<>>
    /\ complete_callbacks = <<>>
    /\ useKey \in BOOLEAN
    /\ counter = 0
    /\ k = 0
    /\ disk = {}
    /\ resp = NoResp
    /\ run = 0
    /\ diskAtStart = {}
    /\ log = <<>>

Next ==
    \/ on_image_download
    \/ on_download_success
    \/ on_complete
    \/ save_images
    \/ ImageCallback
    \/ SkipExisting
    \/ Download
    \/ SuccessCallback
    \/ CompleteCallback

Spec == Init /\ [][Next]_vars

(* ------------------------------ properties ----------------------------- *)

\* positions of the log that hold an event of this kind for item i
Events(kind, i) == {j \in 1..Len(log) : log[j][1] = kind /\ log[j][2] = i}

Exists(d, p) == \E f \in d : f[1] = p

\* the last GET of save_images raised, or its body is no image
ItemFailed(r) == r.exc # "none" \/ r.body.kind # "image"

\* the loop stands at the beginning of item c, or behind the last item
LoopAt(c) ==
    /\ counter = c
    /\ IF c <= NumItems
       THEN pc \in {"image_callbacks", "download"}
       ELSE pc \in {"complete_callbacks", "done"}

\* the same of the state a step leads to
NextLoopAt(c) ==
    /\ counter' = c
    /\ IF c <= NumItems
       THEN pc' \in {"image_callbacks", "download"}
       ELSE pc' \in {"complete_callbacks", "done"}

\* every complete callback has been called exactly once, in the order of
\* registration, and nothing was logged after that
CompleteFiredOnce ==
    LET n == Len(complete_callbacks)
    IN  /\ Len(log) >= n
        /\ \A j \in 1..n : log[Len(log) - n + j] = <<"complete", 0, complete_callbacks[j]>>
        /\ \A j \in 1..(Len(log) - n) : log[j][1] # "complete"

\* every item was either skipped or requested, exactly once
AllProcessed ==
    \A i \in 1..NumItems :
        Cardinality(Events("skip", i) \cup Events("get", i)) = 1

(* C1: the failure of one item's GET or decoding is absorbed by the loop.   *)
(* The step in which the GET raises or the body is no image leaves the      *)
(* files alone, logs the failure and puts the loop at the next item; an     *)
(* exception never leaves save_images from the download of an item; and a   *)
(* call that returns has processed every item exactly once and has called   *)
(* every complete callback exactly once.                                    *)
C1_Step ==
    (pc = "download" /\ resp'.idx = counter /\ ItemFailed(resp'))
        => /\ disk' = disk
           /\ log' = log \o << <<"get", counter, 0>>, <<"failed", counter, 0>> >>
           /\ NextLoopAt(counter + 1)
           /\ raised' = raised

C1_Inv ==
    /\ pc = "raised" => raised.from # "download"
    /\ pc = "done" => AllProcessed /\ CompleteFiredOnce

\* C1: a failed GET or decoding of one item never ends or disturbs the run
C1_FailureIsolation == []C1_Inv /\ [][C1_Step]_vars

\* item 1 of 2 failed, item 2 was saved, the complete callback was called
C1_Witness ==
    /\ pc = "done"
    /\ NumItems = 2
    /\ complete_callbacks # <<>>
    /\ Events("failed", 1) # {}
    /\ Events("write", 1) = {}
    /\ Events("write", 2) # {}
    /\ Exists(disk, Path(2))

(* C2: an item without a file whose GET ends in a transport failure, an     *)
(* HTTP error response or an undecodable body is Failed: no file at its     *)
(* path and no success callback called for it.                              *)
C2_FailedLeavesNothing ==
    (resp.idx > 0 /\ (resp.exc # "none" \/ resp.status >= 400 \/ resp.body.kind # "image"))
        => /\ ~Exists(disk, Path(resp.idx))
           /\ Events("write", resp.idx) = {}
           /\ Events("success", resp.idx) = {}

(* C3: an item whose path holds a file when its download is reached has had *)
(* every before-download callback called, in order; the step then taken     *)
(* issues no request, calls no success callback, leaves the files as they   *)
(* are and puts the loop at the next item.                                  *)
BeforeAllCalled ==
    LET n == Len(image_callbacks)
    IN  /\ Len(log) >= n
        /\ \A j \in 1..n : log[Len(log) - n + j] = <<"before", counter, image_callbacks[j]>>

C3_Step ==
    (pc = "download" /\ Exists(disk, Path(counter)))
        => /\ disk' = disk
           /\ resp' = NoResp
           /\ log' = Append(log, <<"skip", counter, 0>>)
           /\ NextLoopAt(counter + 1)

C3_Inv ==
    /\ (pc = "download" /\ Exists(disk, Path(counter))) => BeforeAllCalled
    /\ \A i \in 1..NumItems :
           Events("skip", i) # {}
               => /\ Events("get", i) = {}
                  /\ Events("success", i) = {}
                  /\ \E f \in diskAtStart : f[1] = Path(i) /\ f \in disk

\* C3: an item whose file exists is skipped after its before-download callbacks
C3_SkipExisting == []C3_Inv /\ [][C3_Step]_vars

\* a file was there, the before-download callback was called, the item skipped
C3_Witness ==
    /\ image_callbacks # <<>>
    /\ NumItems >= 1
    /\ counter = 2
    /\ Events("skip", 1) # {}
    /\ Events("before", 1) # {}
    /\ Exists(disk, Path(1))

(* C4: a body that decodes to exactly 161 x 81 pixels is never written and  *)
(* never reaches a success callback: the step that receives it changes no   *)
(* file and puts the loop at the next item, no file ever holds such a body, *)
(* and a call that returns has called the complete callbacks.               *)
Is161x81(body) == body.kind = "image" /\ body.w = 161 /\ body.h = 81

C4_Step ==
    (pc = "download" /\ resp'.idx = counter /\ resp'.exc = "none" /\ Is161x81(resp'.body))
        => /\ disk' = disk
           /\ log' = Append(log, <<"get", counter, 0>>)
           /\ NextLoopAt(counter + 1)

C4_Inv ==
    /\ \A f \in disk : ~Is161x81(f[2])
    /\ pc = "done" => CompleteFiredOnce

\* C4: a 161 x 81 body is never written and never reaches a success callback
C4_PlaceholderSkipped == []C4_Inv /\ [][C4_Step]_vars

\* item 1 of 2 came back as the placeholder and the loop stands at item 2
C4_Witness ==
    /\ resp.idx = 1
    /\ resp.exc = "none"
    /\ Is161x81(resp.body)
    /\ NumItems = 2
    /\ LoopAt(2)
    /\ ~Exists(disk, Path(1))

(* C5 as stated: a second call of save_images (no callbacks registered)     *)
(* requests no item whose file exists and leaves the folder's contents as   *)
(* the first call left them.                                                *)
NoCallbacks ==
    image_callbacks = <<>> /\ success_callbacks = <<>> /\ complete_callbacks = <<>>

NoGetForExisting ==
    \A i \in 1..NumItems : Exists(diskAtStart, Path(i)) => Events("get", i) = {}

\* C5 as stated: no request for existing files and identical contents
C5_IdenticalContents ==
    (run >= 2 /\ NoCallbacks) => NoGetForExisting /\ disk = diskAtStart

(* C5 amended: a later call of save_images requests no item whose file      *)
(* exists and leaves every file it found unchanged; the only files it adds  *)
(* are those of items that had no file when the call began.                 *)
C5_RerunKeepsFiles ==
    run >= 2
        => /\ NoGetForExisting
           /\ diskAtStart \subseteq disk
           /\ \A f \in disk \ diskAtStart :
                  \E i \in 1..NumItems :
                      f[1] = Path(i) /\ ~Exists(diskAtStart, Path(i))

\* second call: item 1 had its file and was skipped, item 2 was fetched again
C5_Witness ==
    /\ run = 2
    /\ pc = "done"
    /\ NumItems = 2
    /\ Exists(diskAtStart, Path(1))
    /\ Events("skip", 1) # {}
    /\ ~Exists(diskAtStart, Path(2))
    /\ Events("get", 2) # {}
    /\ Exists(disk, Path(2))

(* C6: two constructions from the same page body with the same extension    *)
(* filter give the same item order (hence the same index and file name for  *)
(* every item) and the same list_extensions().                              *)
C6_SameOrder ==
    (pc = "idle" /\ prev.built /\ prev.extn = extn)
        => /\ imageIDs = prev.imageIDs
           /\ list_extensions = prev.exts

(* C7: callbacks only observe: whatever they do, save_images is not left by *)
(* an exception and every file it wrote is on disk.                         *)
C7_ObservationOnly ==
    /\ pc # "raised"
    /\ \A i \in 1..NumItems : Events("write", i) # {} => Exists(disk, Path(i))

(* C8: when the listing GET ends in a transport failure or in a final       *)
(* response that is not 2xx, construction fails with ImgurAlbumException.   *)
ListingFailed ==
    /\ resp.idx = 0
    /\ \/ resp.exc # "none"
       \/ resp.status # 0 /\ (resp.status < 200 \/ resp.status > 299)

C8_FetchError ==
    ListingFailed => pc = "failed" /\ raised.type = "ImgurAlbumException"

(* C9: with an allow-list the extracted items are exactly the distinct      *)
(* (id, extension) pairs of the fragments whose extension is listed (with   *)
(* or without its leading dot); without one, the pairs of all fragments.    *)
Listed(ext, filter) ==
    \/ filter = <<>>
    \/ \E i \in 1..Len(filter) : ext = filter[i] \/ ext = <<".">> \o filter[i]

C9_FilterExact ==
    pc = "idle"
        => Range(imageIDs) =
               {<<f.hash, f.ext>> : f \in {g \in Range(page) : Listed(g.ext, extn)}}

(* C10: in a call that returns, the callbacks are called in this order: for *)
(* each item in turn every before-download callback in registration order,  *)
(* before the item's request, then, if the item was written, every success  *)
(* callback in registration order after the write; at the end every         *)
(* complete callback once, in registration order.                           *)
IsHook(e) == e[1] \in {"before", "success", "complete"}

BeforeEvents(i) == [j \in 1..Len(image_callbacks) |-> <<"before", i, image_callbacks[j]>>]

SuccessEvents(i) ==
    IF Events("write", i) # {}
    THEN [j \in 1..Len(success_callbacks) |-> <<"success", i, success_callbacks[j]>>]
    ELSE <<>>

RECURSIVE ItemHooks(_)
ItemHooks(i) ==
    IF i > NumItems THEN <<>>
    ELSE BeforeEvents(i) \o SuccessEvents(i) \o ItemHooks(i + 1)

ExpectedHooks ==
    ItemHooks(1) \o [j \in 1..Len(complete_callbacks) |-> <<"complete", 0, complete_callbacks[j]>>]

C10_HookSequence ==
    pc = "done"
        => /\ SelectSeq(log, IsHook) = ExpectedHooks
           /\ \A i \in 1..NumItems :
                  /\ \A b \in Events("before", i), g \in Events("get", i) : b < g
                  /\ \A w \in Events("write", i), c \in Events("success", i) : w < c

====
